---------------------------- MODULE Spec2Model ----------------------------
(***************************************************************************)
(* A model of the Game Boy CPU core of package gb: the address space       *)
(* (gb/ram.go), the register file, the fetch/execute cycle (gb/cpu.go)     *)
(* and the opcode decoder (gb/opcodes.go), together with the package's     *)
(* opcode tests, which drive the machine.                                  *)
(*                                                                         *)
(* Go values are modelled as follows.                                      *)
(*   - uint8 / uint16 are naturals reduced modulo 2^8, 2^16 wherever the   *)
(*     Go expression can wrap.                                             *)
(*   - An error is a string naming the package-level error variable;       *)
(*     "nil" is the nil error.                                             *)
(*   - A *gbOpcode is a sequence: <<>> is the nil pointer, <<o>> points    *)
(*     to the record o.                                                    *)
(*   - A panic is a string naming the panic value; "none" means the call   *)
(*     returned normally.  A panic ends the program.                       *)
(*   - gbRAM.mem, an array of 65536 bytes, is the function holding its     *)
(*     non-zero bytes; an address outside its domain holds the zero the    *)
(*     Go array starts with.                                               *)
(***************************************************************************)
EXTENDS Integers, Sequences, FiniteSets, TLC

VARIABLES
    reg8,       \* gbCPU.reg8  : [0..7 -> uint8]
    reg16,      \* gbCPU.reg16 : [0..1 -> uint16]
    mem,        \* gbRAM.mem
    gbErrUnknownOpcode, \* identity of the error value the package variable holds
    panic,      \* "none", or the value the program panicked with
    pc,         \* position of the running test function
    tc,         \* the running test's parameters
    err,        \* the error the last fallible call returned
    hist,       \* the calls made so far on the register file / address space
    ops,        \* the byte sequence handed to decode
    dec         \* what decode returned for ops

vars == <<reg8, reg16, mem, gbErrUnknownOpcode, panic, pc, tc, err, hist, ops, dec>>

-----------------------------------------------------------------------------
(* Fixed-width arithmetic *)

Pow2(n) == 2 ^ n

uint8(x) == x % 256

uint16(x) == x % 65536

\* A uint32 is a natural below 2^32.  Every uint32 the model computes is a
\* widened uint16 or an input address plus a small offset, which Go does not
\* wrap, so uint32 arithmetic is written as plain arithmetic.

RECURSIVE BitAnd(_, _)
\* Go's x & y on naturals
BitAnd(x, y) ==
    IF x = 0 \/ y = 0 THEN 0
    ELSE (x % 2) * (y % 2) + 2 * BitAnd(x \div 2, y \div 2)

\* Go's x >> n on an unsigned value
Shr(x, n) == x \div Pow2(n)

\* Go's x << n before the result is cut to its type's width
Shl(x, n) == x * Pow2(n)

-----------------------------------------------------------------------------
(* gb/cpu.go: register identities *)

gbRegisterUnknown == 0
gbRegisterA == 1
gbRegisterF == 2
gbRegisterB == 3
gbRegisterC == 4
gbRegisterD == 5
gbRegisterE == 6
gbRegisterH == 7
gbRegisterL == 8
gbRegisterSP == 9
gbRegisterPC == 10
gbRegisterAF == 11
gbRegisterBC == 12
gbRegisterDE == 13
gbRegisterHL == 14

is8Bit(rt) == rt >= gbRegisterA /\ rt <= gbRegisterL

is16Bit(rt) == rt >= gbRegisterSP /\ rt <= gbRegisterHL

isCombined(rt) == rt >= gbRegisterAF /\ rt <= gbRegisterHL

decodeRegisterType(t0) ==
    LET t == BitAnd(t0, 7) IN
    CASE t = 0 -> gbRegisterB
      [] t = 1 -> gbRegisterC
      [] t = 2 -> gbRegisterD
      [] t = 3 -> gbRegisterE
      [] t = 4 -> gbRegisterH
      [] t = 5 -> gbRegisterL
      [] t = 7 -> gbRegisterA
      [] OTHER -> gbRegisterUnknown

-----------------------------------------------------------------------------
(* gb/cpu.go: the register file.  A cpu value c is [reg8, reg16].          *)

newGBCPU == [reg8 |-> [i \in 0..7 |-> 0], reg16 |-> [i \in 0..1 |-> 0]]

\* Go panics with a runtime error when an array index is outside the array.
IndexOK(i, len) == i >= 0 /\ i < len

\* High and low register of a combined register.
HighOf(t) ==
    CASE t = gbRegisterAF -> gbRegisterA
      [] t = gbRegisterBC -> gbRegisterB
      [] t = gbRegisterDE -> gbRegisterD
      [] t = gbRegisterHL -> gbRegisterH

LowOf(t) ==
    CASE t = gbRegisterAF -> gbRegisterF
      [] t = gbRegisterBC -> gbRegisterC
      [] t = gbRegisterDE -> gbRegisterE
      [] t = gbRegisterHL -> gbRegisterL

\* readRegister returns [val, panic].
readRegister(c, t) ==
    IF is8Bit(t)
    THEN [val |-> c.reg8[t - 1], panic |-> "none"]
    ELSE IF is16Bit(t) /\ ~isCombined(t)
    THEN IF IndexOK(t - gbRegisterSP - 1, 2)
         THEN [val |-> c.reg16[t - gbRegisterSP - 1], panic |-> "none"]
         ELSE [val |-> 0, panic |-> "index out of range"]
    ELSE IF isCombined(t)
    THEN [val |-> uint16(uint16(Shl(c.reg8[HighOf(t) - 1], 8)) + c.reg8[LowOf(t) - 1]),
          panic |-> "none"]
    ELSE [val |-> 0, panic |-> "gbErrUnknownRegisterType"]

\* A faulty pokeRegister: a combined register's bytes go to the wrong halves.
pokeRegister_swappedHalves(c, val, t) ==
    IF is8Bit(t)
    THEN [c |-> [c EXCEPT !.reg8[t - 1] = uint8(BitAnd(val, 255))], panic |-> "none"]
    ELSE IF is16Bit(t) /\ ~isCombined(t)
    THEN IF IndexOK(t - gbRegisterSP - 1, 2)
         THEN [c |-> [c EXCEPT !.reg16[t - gbRegisterSP - 1] = val], panic |-> "none"]
         ELSE [c |-> c, panic |-> "index out of range"]
    ELSE IF isCombined(t)
    THEN [c |-> [c EXCEPT !.reg8[LowOf(t) - 1] = uint8(Shr(val, 8)),
                          !.reg8[HighOf(t) - 1] = uint8(BitAnd(val, 255))],
          panic |-> "none"]
    ELSE [c |-> c, panic |-> "gbErrUnknownRegisterType"]

\* pokeRegister returns [c, panic]; c is unchanged when it panics.
pokeRegister(c, val, t) ==
    IF is8Bit(t)
    THEN [c |-> [c EXCEPT !.reg8[t - 1] = uint8(BitAnd(val, 255))], panic |-> "none"]
    ELSE IF is16Bit(t) /\ ~isCombined(t)
    THEN IF IndexOK(t - gbRegisterSP - 1, 2)
         THEN [c |-> [c EXCEPT !.reg16[t - gbRegisterSP - 1] = val], panic |-> "none"]
         ELSE [c |-> c, panic |-> "index out of range"]
    ELSE IF isCombined(t)
    THEN [c |-> [c EXCEPT !.reg8[HighOf(t) - 1] = uint8(Shr(val, 8)),
                          !.reg8[LowOf(t) - 1] = uint8(BitAnd(val, 255))],
          panic |-> "none"]
    ELSE [c |-> c, panic |-> "gbErrUnknownRegisterType"]

-----------------------------------------------------------------------------
(* gb/ram.go: the address space.  A ram value r is the function of its     *)
(* non-zero bytes.                                                         *)

gbMaxAddress == 65536

newGBRAM == [a \in {} |-> 0]

\* r.mem[addr]
MemAt(r, addr) == IF addr \in DOMAIN r THEN r[addr] ELSE 0

\* r.mem[addr] = val
MemSet(r, addr, val) ==
    IF val = 0
    THEN [a \in (DOMAIN r) \ {addr} |-> r[a]]
    ELSE [a \in (DOMAIN r) \cup {addr} |-> IF a = addr THEN val ELSE r[a]]

\* A faulty poke: the bounds check lets the first address past the end through.
poke_offByOne(r, addr, val) ==
    IF addr > gbMaxAddress
    THEN [r |-> r, err |-> "gbErrOutOfBounds"]
    ELSE [r |-> MemSet(r, addr, val), err |-> "nil"]

\* poke returns [r, err].
poke(r, addr, val) ==
    IF addr >= gbMaxAddress
    THEN [r |-> r, err |-> "gbErrOutOfBounds"]
    ELSE [r |-> MemSet(r, addr, val), err |-> "nil"]

\* read returns [val, err].
read(r, addr) ==
    IF addr >= gbMaxAddress
    THEN [val |-> 0, err |-> "gbErrOutOfBounds"]
    ELSE [val |-> MemAt(r, addr), err |-> "nil"]

RECURSIVE readNFrom(_, _, _, _, _)
\* The loop of readN from iteration i on, with res the bytes read so far.
readNFrom(r, addr, n, i, res) ==
    IF i >= n THEN [vals |-> res, err |-> "nil"]
    ELSE LET b == read(r, (addr + i)) IN
         IF b.err # "nil" THEN [vals |-> <<>>, err |-> b.err]
         ELSE readNFrom(r, addr, n, i + 1, Append(res, b.val))

\* (r *gbRAM).read(addr, n) of the address-space revision kept at the end of
\* cpu.go: the slice mem[addr : addr+n], refused when addr+n reaches
\* gbMaxAddress.  Returns [vals, err].
gbRAM_read(r, addr, n) ==
    IF addr + n >= gbMaxAddress
    THEN [vals |-> <<>>, err |-> "gbErrOutOfBounds"]
    ELSE [vals |-> [i \in 1..n |-> MemAt(r, addr + i - 1)], err |-> "nil"]

\* A faulty readN: the range is refused when its end, not its last byte, is
\* past the last address.
readN_sumCheck(r, addr, n) ==
    IF addr + n >= gbMaxAddress THEN [vals |-> <<>>, err |-> "gbErrOutOfBounds"]
    ELSE readNFrom(r, addr, n, 0, <<>>)

\* readN returns [vals, err]; vals is the nil slice on an error.
readN(r, addr, n) == readNFrom(r, addr, n, 0, <<>>)

RECURSIVE pokeNFrom(_, _, _, _)
\* The loop of pokeN from index i (0-based) on.
pokeNFrom(r, addr, vals, i) ==
    IF i >= Len(vals) THEN [r |-> r, err |-> "nil"]
    ELSE LET p == poke(r, (addr + i), vals[i + 1]) IN
         IF p.err # "nil" THEN [r |-> p.r, err |-> p.err]
         ELSE pokeNFrom(p.r, addr, vals, i + 1)

\* A faulty pokeN: a failure undoes the bytes already written.
pokeN_rollback(r, addr, vals) ==
    LET p == pokeNFrom(r, addr, vals, 0) IN
    IF p.err # "nil" THEN [r |-> r, err |-> p.err] ELSE p

\* pokeN returns [r, err]; the bytes written before a failure stay written.
pokeN(r, addr, vals) == pokeNFrom(r, addr, vals, 0)

-----------------------------------------------------------------------------
(* gb/opcodes.go: the opcode decoder *)

gbOpcodeHeader00 == 0
gbOpcodeHeader01 == 1
gbOpcodeHeader10 == 16
gbOpcodeHeader11 == 17

gbOpcodeMaskHeader == 192
gbOpcodeMaskFirst == 56
gbOpcodeMaskSecond == 7

gbOpcodeLDRRp == 1
gbOpcodeLDRHl == 2
gbOpcodeLDHlR == 3

\* A faulty field split: the mask of the first field misses its lowest bit.
OpcodeFields_narrowMask(b) ==
    [header |-> Shr(BitAnd(b, gbOpcodeMaskHeader), 6),
     first  |-> Shr(BitAnd(b, 48), 3),
     second |-> BitAnd(b, gbOpcodeMaskSecond)]

\* The fields decode splits the first byte into: [header, first, second].
OpcodeFields(b) ==
    [header |-> Shr(BitAnd(b, gbOpcodeMaskHeader), 6),
     first  |-> Shr(BitAnd(b, gbOpcodeMaskFirst), 3),
     second |-> BitAnd(b, gbOpcodeMaskSecond)]

\* A faulty NewOpcode: data keeps the opcode byte, ops[0:] for ops[1:].
NewOpcode_keepsFirstByte(opsv) ==
    LET f == OpcodeFields(opsv[1]) IN
    [header |-> f.header, first |-> f.first, second |-> f.second,
     data |-> opsv, tipe |-> 0, cycles |-> 0]

\* The gbOpcode value decode builds before it classifies it.
NewOpcode(opsv) ==
    LET f == OpcodeFields(opsv[1]) IN
    [header |-> f.header, first |-> f.first, second |-> f.second,
     data |-> SubSeq(opsv, 2, Len(opsv)), tipe |-> 0, cycles |-> 0]

\* A faulty decodeHeader01: the surplus is reported with the sign of a deficit.
decodeHeader01_positiveDelta(o) ==
    LET fR == decodeRegisterType(o.first)
        sR == decodeRegisterType(o.second)
    IN  IF fR = gbRegisterHL /\ sR = gbRegisterHL
        THEN [opcode |-> <<>>, n |-> 0, err |-> "gbErrInvalidOpcode"]
        ELSE IF Len(o.data) > 0
        THEN [opcode |-> <<>>, n |-> Len(o.data), err |-> "gbErrWrongOpcodeSize"]
        ELSE IF fR = gbRegisterHL
        THEN [opcode |-> <<[o EXCEPT !.tipe = gbOpcodeLDHlR, !.cycles = 2]>>,
              n |-> 0, err |-> "nil"]
        ELSE IF sR = gbRegisterHL
        THEN [opcode |-> <<[o EXCEPT !.tipe = gbOpcodeLDRHl, !.cycles = 2]>>,
              n |-> 0, err |-> "nil"]
        ELSE [opcode |-> <<[o EXCEPT !.tipe = gbOpcodeLDRRp, !.cycles = 1]>>,
              n |-> 0, err |-> "nil"]

\* What decode does with a first byte of header 01.
decodeHeader01(o) ==
    LET fR == decodeRegisterType(o.first)
        sR == decodeRegisterType(o.second)
    IN  IF fR = gbRegisterHL /\ sR = gbRegisterHL
        THEN [opcode |-> <<>>, n |-> 0, err |-> "gbErrInvalidOpcode"]
        ELSE IF Len(o.data) > 0
        THEN [opcode |-> <<>>, n |-> -Len(o.data), err |-> "gbErrWrongOpcodeSize"]
        ELSE IF fR = gbRegisterHL
        THEN [opcode |-> <<[o EXCEPT !.tipe = gbOpcodeLDHlR, !.cycles = 2]>>,
              n |-> 0, err |-> "nil"]
        ELSE IF sR = gbRegisterHL
        THEN [opcode |-> <<[o EXCEPT !.tipe = gbOpcodeLDRHl, !.cycles = 2]>>,
              n |-> 0, err |-> "nil"]
        ELSE [opcode |-> <<[o EXCEPT !.tipe = gbOpcodeLDRRp, !.cycles = 1]>>,
              n |-> 0, err |-> "nil"]

\* A faulty decode: surplus bytes are rejected before the header is looked at.
decode_sizeFirst(opsv) ==
    IF Len(opsv) = 0
    THEN [opcode |-> <<>>, n |-> 0, err |-> "gbErrInvalidOpcode"]
    ELSE IF Len(opsv) > 1
    THEN [opcode |-> <<>>, n |-> -(Len(opsv) - 1), err |-> "gbErrWrongOpcodeSize"]
    ELSE LET o == NewOpcode(opsv) IN
         IF o.header = gbOpcodeHeader01
         THEN decodeHeader01(o)
         ELSE [opcode |-> <<>>, n |-> 0, err |-> "gbErrInvalidOpcode"]

\* decode returns [opcode, n, err].
decode(opsv) ==
    IF Len(opsv) = 0
    THEN [opcode |-> <<>>, n |-> 0, err |-> "gbErrInvalidOpcode"]
    ELSE LET o == NewOpcode(opsv) IN
         IF o.header = gbOpcodeHeader01
         THEN decodeHeader01(o)
         ELSE [opcode |-> <<>>, n |-> 0, err |-> "gbErrInvalidOpcode"]

-----------------------------------------------------------------------------
(* gb/cpu.go: fetch, decode, execute.  g is the identity of the error      *)
(* value held by the package variable gbErrUnknownOpcode.                  *)

\* A faulty pokeRegisterIntoRegister: source and destination are exchanged.
pokeRegisterIntoRegister_swapped(c, from, to) ==
    LET v == readRegister(c, to) IN
    IF v.panic # "none" THEN [c |-> c, panic |-> v.panic]
    ELSE pokeRegister(c, v.val, from)

\* pokeRegisterIntoRegister returns [c, panic].
pokeRegisterIntoRegister(c, from, to) ==
    LET v == readRegister(c, from) IN
    IF v.panic # "none" THEN [c |-> c, panic |-> v.panic]
    ELSE pokeRegister(c, v.val, to)

\* A faulty pokeRegisterIntoRAM: the high byte is written at addr+1 even for
\* an 8-bit store.
pokeRegisterIntoRAM_alwaysTwoBytes(c, r, t, addr, only8Bit) ==
    LET v == readRegister(c, t) IN
    IF v.panic # "none" THEN [r |-> r, err |-> "nil", panic |-> v.panic]
    ELSE LET first  == uint8(BitAnd(v.val, 255))
             second == uint8(Shr(v.val, 8))
             p1     == poke(r, addr, first)
         IN  IF p1.err # "nil" THEN [r |-> p1.r, err |-> p1.err, panic |-> "none"]
             ELSE LET p2 == poke(p1.r, (addr + 1), second) IN
                  [r |-> p2.r, err |-> p2.err, panic |-> "none"]

\* pokeRegisterIntoRAM returns [r, err, panic].
pokeRegisterIntoRAM(c, r, t, addr, only8Bit) ==
    LET v == readRegister(c, t) IN
    IF v.panic # "none" THEN [r |-> r, err |-> "nil", panic |-> v.panic]
    ELSE LET first  == uint8(BitAnd(v.val, 255))
             second == uint8(Shr(v.val, 8))
             p1     == poke(r, addr, first)
         IN  IF p1.err # "nil" THEN [r |-> p1.r, err |-> p1.err, panic |-> "none"]
             ELSE IF ~only8Bit
             THEN LET p2 == poke(p1.r, (addr + 1), second) IN
                  [r |-> p2.r, err |-> p2.err, panic |-> "none"]
             ELSE [r |-> p1.r, err |-> p1.err, panic |-> "none"]

\* pokeRAMIntoRegister returns [c, g, err, panic].  It replaces the value of
\* the package variable gbErrUnknownOpcode by a newly allocated error.
pokeRAMIntoRegister(c, r, g, t, addr, only8Bit) ==
    LET rd == IF only8Bit THEN readN(r, addr, 1) ELSE readN(r, addr, 2) IN
    IF rd.err # "nil" THEN [c |-> c, g |-> g, err |-> rd.err, panic |-> "none"]
    ELSE LET val == IF only8Bit THEN rd.vals[1]
                    ELSE uint16(uint8(Shl(rd.vals[1], 8)) + rd.vals[2])
             p   == pokeRegister(c, val, t)
         IN  [c |-> p.c, g |-> g + 1, err |-> "nil", panic |-> p.panic]

\* What a call of load did: the addresses it read from r, in order, and the
\* number of times it called decode.
Steps(reads, decodes) == [reads |-> reads, decodes |-> decodes]

\* The n addresses readN(r, addr+1, n) reads.
After(addr, n) == [i \in 1..n |-> addr + i]

\* A faulty load: it moves PC past the opcode byte it has read.
load_advancesPC(c0, r) ==
    LET addr == readRegister(c0, gbRegisterPC).val
        c    == pokeRegister(c0, uint16(addr + 1), gbRegisterPC).c
        op   == read(r, addr)
    IN  IF op.err # "nil"
        THEN [c |-> c, r |-> r, steps |-> Steps(<<addr>>, 0),
              opcode |-> <<>>, err |-> op.err, panic |-> "none"]
        ELSE LET opsv == <<op.val>>
                 d1   == decode(opsv)
             IN  IF d1.err # "nil" /\ d1.err # "gbErrWrongOpcodeSize"
                 THEN [c |-> c, r |-> r, steps |-> Steps(<<addr>>, 1),
                       opcode |-> <<>>, err |-> d1.err, panic |-> "none"]
                 ELSE IF d1.err = "nil"
                 THEN [c |-> c, r |-> r, steps |-> Steps(<<addr>>, 1),
                       opcode |-> d1.opcode, err |-> "nil", panic |-> "none"]
                 ELSE IF d1.n < 0
                 THEN [c |-> c, r |-> r, steps |-> Steps(<<addr>>, 1),
                       opcode |-> <<>>, err |-> "nil",
                       panic |-> "gbErrIncompatibleOpcodeSize"]
                 ELSE LET opsn == readN(r, (addr + 1), d1.n) IN
                      IF opsn.err # "nil"
                      THEN [c |-> c, r |-> r, steps |-> Steps(<<addr>> \o After(addr, d1.n), 1),
                            opcode |-> <<>>, err |-> opsn.err, panic |-> "none"]
                      ELSE LET d2 == decode(opsv \o opsn.vals) IN
                           IF d2.n # 0
                           THEN [c |-> c, r |-> r, steps |-> Steps(<<addr>> \o After(addr, d1.n), 2),
                                 opcode |-> <<>>, err |-> "nil",
                                 panic |-> "gbErrIncompatibleOpcodeSize"]
                           ELSE [c |-> c, r |-> r, steps |-> Steps(<<addr>> \o After(addr, d1.n), 2),
                                 opcode |-> d2.opcode, err |-> d2.err,
                                 panic |-> "none"]

\* load returns [c, r, steps, opcode, err, panic]; c and r are the machine
\* after the call, which load only reads, and steps is what the call did.
load(c, r) ==
    LET addr == readRegister(c, gbRegisterPC).val
        op   == read(r, addr)
    IN  IF op.err # "nil"
        THEN [c |-> c, r |-> r, steps |-> Steps(<<addr>>, 0),
              opcode |-> <<>>, err |-> op.err, panic |-> "none"]
        ELSE LET opsv == <<op.val>>
                 d1   == decode(opsv)
             IN  IF d1.err # "nil" /\ d1.err # "gbErrWrongOpcodeSize"
                 THEN [c |-> c, r |-> r, steps |-> Steps(<<addr>>, 1),
                       opcode |-> <<>>, err |-> d1.err, panic |-> "none"]
                 ELSE IF d1.err = "nil"
                 THEN [c |-> c, r |-> r, steps |-> Steps(<<addr>>, 1),
                       opcode |-> d1.opcode, err |-> "nil", panic |-> "none"]
                 ELSE IF d1.n < 0
                 THEN [c |-> c, r |-> r, steps |-> Steps(<<addr>>, 1),
                       opcode |-> <<>>, err |-> "nil",
                       panic |-> "gbErrIncompatibleOpcodeSize"]
                 ELSE LET opsn == readN(r, (addr + 1), d1.n) IN
                      IF opsn.err # "nil"
                      THEN [c |-> c, r |-> r, steps |-> Steps(<<addr>> \o After(addr, d1.n), 1),
                            opcode |-> <<>>, err |-> opsn.err, panic |-> "none"]
                      ELSE LET d2 == decode(opsv \o opsn.vals) IN
                           IF d2.n # 0
                           THEN [c |-> c, r |-> r, steps |-> Steps(<<addr>> \o After(addr, d1.n), 2),
                                 opcode |-> <<>>, err |-> "nil",
                                 panic |-> "gbErrIncompatibleOpcodeSize"]
                           ELSE [c |-> c, r |-> r, steps |-> Steps(<<addr>> \o After(addr, d1.n), 2),
                                 opcode |-> d2.opcode, err |-> d2.err,
                                 panic |-> "none"]

\* execute returns [c, r, g, err, panic] for the opcode record op.
execute(c, r, g, op) ==
    CASE op.tipe = gbOpcodeLDRRp ->
            LET to   == decodeRegisterType(op.first)
                from == decodeRegisterType(op.second)
                p    == pokeRegisterIntoRegister(c, from, to)
            IN  [c |-> p.c, r |-> r, g |-> g, err |-> "nil", panic |-> p.panic]
      [] op.tipe = gbOpcodeLDRHl ->
            LET to   == decodeRegisterType(op.first)
                addr == readRegister(c, gbRegisterHL).val
                p    == pokeRAMIntoRegister(c, r, g, to, addr, TRUE)
            IN  [c |-> p.c, r |-> r, g |-> p.g, err |-> p.err, panic |-> p.panic]
      [] op.tipe = gbOpcodeLDHlR ->
            LET from == decodeRegisterType(op.second)
                addr == readRegister(c, gbRegisterHL).val
                p    == pokeRegisterIntoRAM(c, r, from, addr, TRUE)
            IN  [c |-> c, r |-> p.r, g |-> g, err |-> p.err, panic |-> p.panic]
      [] OTHER ->
            [c |-> c, r |-> r, g |-> g, err |-> "gbErrUnknownOpcode", panic |-> "none"]

\* The statements of runInstructionCycle after its call of load, whose
\* results are l.
afterLoad(g, l) ==
    IF l.panic # "none"
    THEN [c |-> l.c, r |-> l.r, g |-> g, err |-> "nil", panic |-> l.panic,
          executed |-> FALSE]
    ELSE IF l.err # "nil"
    THEN [c |-> l.c, r |-> l.r, g |-> g, err |-> l.err, panic |-> "none",
          executed |-> FALSE]
    ELSE [executed |-> TRUE] @@ execute(l.c, l.r, g, l.opcode[1])

\* A faulty runInstructionCycle: an invalid opcode is not reported.
runInstructionCycle_swallowsError(c, r, g) ==
    [afterLoad(g, load(c, r)) EXCEPT
        !.err = IF @ = "gbErrInvalidOpcode" THEN "nil" ELSE @]

\* runInstructionCycle returns [c, r, g, err, panic, executed]: the machine
\* after the call, the error returned, and whether execute was called.
runInstructionCycle(c, r, g) == afterLoad(g, load(c, r))

\* The results runInstructionCycle hands to its caller: its signature has the
\* single result error.
runResults(x) == [err |-> x.err]

-----------------------------------------------------------------------------
(* The machine held in the variables *)

\* The gbCPU value held in reg8 and reg16.
Cpu == [reg8 |-> reg8, reg16 |-> reg16]

\* No test is running.
NoTest == [name |-> "none", r1 |-> 0, r2 |-> 0, v1 |-> 0, v2 |-> 0, addr |-> 0]

\* A newly constructed machine on which nothing has been called.
Fresh ==
    /\ reg8 = newGBCPU.reg8
    /\ reg16 = newGBCPU.reg16
    /\ mem = newGBRAM
    /\ gbErrUnknownOpcode = 0
    /\ panic = "none"
    /\ pc = "idle"
    /\ tc = NoTest
    /\ err = "nil"
    /\ hist = <<>>
    /\ ops = <<>>
    /\ dec = [opcode |-> <<>>, n |-> 0, err |-> "nil"]

-----------------------------------------------------------------------------
(* The opcode tests: Test8BitLD_R_R, Test8BitLD_HL_R, Test8BitLD_R_HL.     *)
(* Each call made by a test function is one step; pc is the call reached.  *)

\* opcodeRegs of the tests: the operand fields that name a register.
opcodeRegs == {0, 1, 2, 3, 4, 5, 7}

\* opcodeHLReg of the tests: the operand field 110.
opcodeHLReg == 6

\* The values the tests write to registers and memory.
TestVals == {36, 66, 255}

\* The addresses the tests point HL to; the opcode itself sits at 256.
TestAddrs == {0, 516, 65535}

\* The address prepareForOpcodes writes the opcodes to.
OpcodeAddr == 256

\* The opcode byte a test builds: (opcodeHeader << 6) + (f << 3) + s, a uint8.
TestOpcode(f, s) == uint8(uint8(Shl(1, 6)) + uint8(Shl(f, 3)) + s)

\* prepareForOpcodes returns [c, r, err]: a blank machine with the opcodes
\* written at OpcodeAddr and PC pointing to them.
prepareForOpcodes(opcodes) ==
    LET w == pokeN(newGBRAM, OpcodeAddr, opcodes)
        p == pokeRegister(newGBCPU, OpcodeAddr, gbRegisterPC)
    IN  [c |-> p.c, r |-> w.r, err |-> w.err, panic |-> p.panic]

\* The first statements of a test function, up to prepareForOpcodes.
Begin(name, f, s, v1, v2, addr) ==
    /\ pc = "idle"
    /\ panic = "none"
    /\ LET m == prepareForOpcodes(<<TestOpcode(f, s)>>) IN
       /\ reg8' = m.c.reg8
       /\ reg16' = m.c.reg16
       /\ mem' = m.r
       /\ err' = m.err
       /\ panic' = m.panic
    /\ tc' = [name |-> name, r1 |-> f, r2 |-> s, v1 |-> v1, v2 |-> v2, addr |-> addr]
    /\ pc' = "prepared"
    /\ UNCHANGED <<gbErrUnknownOpcode, hist, ops, dec>>

\* Test8BitLD_R_R, testFn(r1, r2), to line 40.
BeginLD_R_R ==
    \E r1 \in opcodeRegs, r2 \in opcodeRegs, v1 \in TestVals, v2 \in TestVals :
        Begin("LD_R_R", r1, r2, v1, v2, 0)

\* Test8BitLD_HL_R, testFn(r), to line 78.
BeginLD_HL_R ==
    \E r \in opcodeRegs, v1 \in TestVals, v2 \in TestVals, addr \in TestAddrs :
        Begin("LD_HL_R", opcodeHLReg, r, v1, v2, addr)

\* Test8BitLD_R_HL, testFn(r), to line 131.
BeginLD_R_HL ==
    \E r \in opcodeRegs, v1 \in TestVals, v2 \in TestVals, addr \in TestAddrs :
        Begin("LD_R_HL", r, opcodeHLReg, v1, v2, addr)

\* The register a test names rt (t1 in Test8BitLD_R_R).
TestReg ==
    IF tc.name = "LD_HL_R" THEN decodeRegisterType(tc.r2)
    ELSE decodeRegisterType(tc.r1)

\* c.pokeRegister(val, t) called by a test, which then stands at pc' = next.
TestPokeRegister(val, t, next) ==
    /\ panic = "none"
    /\ LET p == pokeRegister(Cpu, val, t) IN
       /\ reg8' = p.c.reg8
       /\ reg16' = p.c.reg16
       /\ panic' = p.panic
    /\ pc' = next
    /\ UNCHANGED <<mem, gbErrUnknownOpcode, tc, err, hist, ops, dec>>

\* c.pokeRegister(v1, t1) / c.pokeRegister(v1, rt)
PokeV1 ==
    /\ pc = "prepared"
    /\ TestPokeRegister(tc.v1, TestReg, "poked_v1")

\* c.pokeRegister(v2, t2) of Test8BitLD_R_R
PokeV2 ==
    /\ pc = "poked_v1"
    /\ tc.name = "LD_R_R"
    /\ TestPokeRegister(tc.v2, decodeRegisterType(tc.r2), "ready")

\* r.poke(addr, v2) of the two (HL) tests
PokeMem ==
    /\ pc = "poked_v1"
    /\ tc.name \in {"LD_HL_R", "LD_R_HL"}
    /\ panic = "none"
    /\ LET p == poke(mem, tc.addr, tc.v2) IN
       /\ mem' = p.r
       /\ err' = p.err
    /\ pc' = "poked_mem"
    /\ UNCHANGED <<reg8, reg16, gbErrUnknownOpcode, panic, tc, hist, ops, dec>>

\* c.pokeRegister(uint16(addr), gbRegisterHL) of the two (HL) tests
PokeHL ==
    /\ pc = "poked_mem"
    /\ TestPokeRegister(uint16(tc.addr), gbRegisterHL, "ready")

\* runInstructionCycle(c, r), the call every test ends with
Run ==
    /\ pc = "ready"
    /\ panic = "none"
    /\ LET x == runInstructionCycle(Cpu, mem, gbErrUnknownOpcode) IN
       /\ reg8' = x.c.reg8
       /\ reg16' = x.c.reg16
       /\ mem' = x.r
       /\ gbErrUnknownOpcode' = x.g
       /\ err' = x.err
       /\ panic' = x.panic
    /\ pc' = "ran"
    /\ UNCHANGED <<tc, hist, ops, dec>>

Init == Fresh

Next ==
    \/ BeginLD_R_R
    \/ BeginLD_HL_R
    \/ BeginLD_R_HL
    \/ PokeV1
    \/ PokeV2
    \/ PokeMem
    \/ PokeHL
    \/ Run

Spec == Init /\ [][Next]_vars

-----------------------------------------------------------------------------
(* The register file on its own: any sequence of pokeRegister calls on a   *)
(* new gbCPU.  hist holds the calls made, oldest first.                    *)

\* The longest sequence of register writes explored.
MaxCalls == 2

\* Every register identity of the enumeration.
RegIds == gbRegisterA .. gbRegisterHL

\* The combined registers.
CombinedIds == gbRegisterAF .. gbRegisterHL

\* The values written: two 8-bit values and a 16-bit one with distinct bytes
\* and a non-zero low nibble.
RegVals == {36, 66, 43981}

\* c.pokeRegister(val, t)
PokeRegisterCall(val, t) ==
    /\ panic = "none"
    /\ Len(hist) < MaxCalls
    /\ LET p == pokeRegister(Cpu, val, t) IN
       /\ reg8' = p.c.reg8
       /\ reg16' = p.c.reg16
       /\ panic' = p.panic
    /\ hist' = Append(hist, [op |-> "pokeRegister", val |-> val, t |-> t])
    /\ UNCHANGED <<mem, gbErrUnknownOpcode, pc, tc, err, ops, dec>>

NextReg == \E val \in RegVals, t \in RegIds : PokeRegisterCall(val, t)

SpecReg == Init /\ [][NextReg]_vars

-----------------------------------------------------------------------------
(* The address space on its own: any sequence of poke calls on a new       *)
(* gbRAM.  hist holds the last call and the memory it was made on.         *)

\* The addresses poked: in range (the first, the last, one between) and
\* out of range.
RamAddrs == {0, 256, 65535, 65536, 65537}

\* The bytes poked.
RamVals == {0, 66, 153}

\* r.poke(addr, val)
PokeCall(addr, val) ==
    /\ LET p == poke(mem, addr, val) IN
       /\ mem' = p.r
       /\ err' = p.err
    /\ hist' = <<[op |-> "poke", addr |-> addr, val |-> val, pre |-> mem]>>
    /\ UNCHANGED <<reg8, reg16, gbErrUnknownOpcode, panic, pc, tc, ops, dec>>

RECURSIVE SeqsUpTo(_, _)
\* The sequences over S of length at most n.
SeqsUpTo(S, n) ==
    IF n = 0 THEN {<<>>}
    ELSE LET shorter == SeqsUpTo(S, n - 1) IN
         shorter \cup {Append(q, x) : q \in shorter, x \in S}

\* The most bytes handed to pokeN, and the most asked of readN.
MaxBytes == 3

\* The addresses multi-byte accesses start at: the last two in range and the
\* first out of range.
EdgeAddrs == {65534, 65535, 65536}

\* pokeN(r, addr, vals)
PokeNCall(addr, vals) ==
    /\ LET p == pokeN(mem, addr, vals) IN
       /\ mem' = p.r
       /\ err' = p.err
    /\ hist' = <<[op |-> "pokeN", addr |-> addr, vals |-> vals, pre |-> mem]>>
    /\ UNCHANGED <<reg8, reg16, gbErrUnknownOpcode, panic, pc, tc, ops, dec>>

\* readN(r, addr, n)
ReadNCall(addr, n) ==
    /\ LET x == readN(mem, addr, n) IN
       /\ err' = x.err
       /\ hist' = <<[op |-> "readN", addr |-> addr, n |-> n, vals |-> x.vals,
                     pre |-> mem]>>
    /\ UNCHANGED <<reg8, reg16, mem, gbErrUnknownOpcode, panic, pc, tc, ops, dec>>

\* r.read(addr, n), the two-argument read
ReadCall(addr, n) ==
    /\ LET x == gbRAM_read(mem, addr, n) IN
       /\ err' = x.err
       /\ hist' = <<[op |-> "read", addr |-> addr, n |-> n, vals |-> x.vals,
                     pre |-> mem]>>
    /\ UNCHANGED <<reg8, reg16, mem, gbErrUnknownOpcode, panic, pc, tc, ops, dec>>

NextRAM ==
    \/ \E addr \in RamAddrs, val \in RamVals : PokeCall(addr, val)
    \/ \E addr \in EdgeAddrs, n \in 0..MaxBytes : ReadCall(addr, n)
    \/ \E addr \in EdgeAddrs, vals \in SeqsUpTo(RamVals \ {0}, MaxBytes) :
          PokeNCall(addr, vals)
    \/ \E addr \in EdgeAddrs, n \in 0..MaxBytes : ReadNCall(addr, n)

SpecRAM == Init /\ [][NextRAM]_vars

-----------------------------------------------------------------------------
(* The decoder on its own: decode applied to a byte sequence.              *)

\* The most bytes that follow the opcode byte in an input of decode.
MaxTrailing == 2

\* The bytes that follow the opcode byte.
TrailBytes == {0, 118, 255}

\* The inputs of decode: nothing, or any opcode byte and what follows it.
DecodeInputs ==
    {<<>>} \cup {<<b>> \o q : b \in 0..255, q \in SeqsUpTo(TrailBytes, MaxTrailing)}

InitDecode ==
    /\ reg8 = newGBCPU.reg8
    /\ reg16 = newGBCPU.reg16
    /\ mem = newGBRAM
    /\ gbErrUnknownOpcode = 0
    /\ panic = "none"
    /\ pc = "idle"
    /\ tc = NoTest
    /\ err = "nil"
    /\ hist = <<>>
    /\ ops \in DecodeInputs
    /\ dec = [opcode |-> <<>>, n |-> 0, err |-> "nil"]

\* decode(ops)
DecodeCall ==
    /\ pc = "idle"
    /\ dec' = decode(ops)
    /\ pc' = "decoded"
    /\ UNCHANGED <<reg8, reg16, mem, gbErrUnknownOpcode, panic, tc, err, hist, ops>>

NextDecode == DecodeCall

SpecDecode == InitDecode /\ [][NextDecode]_vars

-----------------------------------------------------------------------------
(* The fetch-execute cycle on any opcode byte: a machine is prepared as the   *)
(* tests prepare theirs, then load and runInstructionCycle are called on it   *)
(* any number of times.                                                       *)

\* The byte each 8-bit register A, F, B, ..., L is filled with: 0x11, 0x22,
\* ..., 0x88, all different and none zero.
FillVal(t) == 17 * t

\* The register file after pokeRegister(FillVal(t), t) for every 8-bit
\* register t: each such call writes the one cell of its register.
FilledCPU ==
    [reg8  |-> [i \in DOMAIN newGBCPU.reg8 |->
                   pokeRegister(newGBCPU, FillVal(i + 1), i + 1).c.reg8[i]],
     reg16 |-> newGBCPU.reg16]

\* The addresses HL is pointed at.
CycleAddrs == {516, 65535}

\* The bytes placed at the address in HL and after it.
FillBytes == <<153, 90>>

\* prepareForOpcodes with the opcode byte b, then every 8-bit register filled,
\* HL pointed at hl and bytes stored there (the one past 0xFFFF is refused).
FilledMachine(b, hl) ==
    LET m  == prepareForOpcodes(<<b>>)
        c1 == [reg8 |-> FilledCPU.reg8, reg16 |-> m.c.reg16]
        c2 == pokeRegister(c1, hl, gbRegisterHL).c
        w  == pokeN(m.r, hl, FillBytes)
    IN  [c |-> c2, r |-> w.r]

\* The machine as a call finds it.
Machine == [c |-> Cpu, r |-> mem, g |-> gbErrUnknownOpcode]

InitCycle ==
    /\ \E b \in 0..255, hl \in CycleAddrs :
          LET m == FilledMachine(b, hl) IN
          /\ reg8 = m.c.reg8
          /\ reg16 = m.c.reg16
          /\ mem = m.r
    /\ gbErrUnknownOpcode = 0
    /\ panic = "none"
    /\ pc = "idle"
    /\ tc = NoTest
    /\ err = "nil"
    /\ hist = <<>>
    /\ ops = <<>>
    /\ dec = [opcode |-> <<>>, n |-> 0, err |-> "nil"]

\* runInstructionCycle(c, r)
RunCall ==
    /\ panic = "none"
    /\ LET x == runInstructionCycle(Cpu, mem, gbErrUnknownOpcode) IN
       /\ reg8' = x.c.reg8
       /\ reg16' = x.c.reg16
       /\ mem' = x.r
       /\ gbErrUnknownOpcode' = x.g
       /\ err' = x.err
       /\ panic' = x.panic
       /\ hist' = <<[op |-> "runInstructionCycle", pre |-> Machine,
                     ret |-> runResults(x), executed |-> x.executed]>>
    /\ UNCHANGED <<pc, tc, ops, dec>>

\* c.load(r)
LoadCall ==
    /\ panic = "none"
    /\ LET l == load(Cpu, mem) IN
       /\ reg8' = l.c.reg8
       /\ reg16' = l.c.reg16
       /\ mem' = l.r
       /\ err' = l.err
       /\ panic' = l.panic
       /\ hist' = <<[op |-> "load", pre |-> Machine,
                     ret |-> [opcode |-> l.opcode, err |-> l.err],
                     steps |-> l.steps, executed |-> FALSE]>>
    /\ UNCHANGED <<gbErrUnknownOpcode, pc, tc, ops, dec>>

NextCycle == RunCall \/ LoadCall

SpecCycle == InitCycle /\ [][NextCycle]_vars

-----------------------------------------------------------------------------
(* execute called directly with any instruction value.                        *)

\* The most execute calls in a row.
MaxExec == 1

\* The cost decode assigns to an instruction kind; 0 for the zero kind.
CyclesOf(k) == IF k = 0 THEN 0 ELSE IF k = gbOpcodeLDRRp THEN 1 ELSE 2

\* The instruction values handed to execute: every pair of operand fields
\* with each of the three kinds and with the zero value of gbOpcodeType.
ExecOpcodes ==
    {[header |-> gbOpcodeHeader01, first |-> f, second |-> s, data |-> <<>>,
      tipe |-> k, cycles |-> CyclesOf(k)] :
        f \in 0..7, s \in 0..7, k \in 0..gbOpcodeLDHlR}

InitExec ==
    /\ \E hl \in CycleAddrs :
          LET m == FilledMachine(TestOpcode(0, 1), hl) IN
          /\ reg8 = m.c.reg8
          /\ reg16 = m.c.reg16
          /\ mem = m.r
    /\ gbErrUnknownOpcode = 0
    /\ panic = "none"
    /\ pc = "idle"
    /\ tc = NoTest
    /\ err = "nil"
    /\ hist = <<>>
    /\ ops = <<>>
    /\ dec = [opcode |-> <<>>, n |-> 0, err |-> "nil"]

\* c.execute(r, op)
ExecuteCall(op) ==
    /\ panic = "none"
    /\ Len(hist) < MaxExec
    /\ LET e == execute(Cpu, mem, gbErrUnknownOpcode, op) IN
       /\ reg8' = e.c.reg8
       /\ reg16' = e.c.reg16
       /\ mem' = e.r
       /\ gbErrUnknownOpcode' = e.g
       /\ err' = e.err
       /\ panic' = e.panic
    /\ hist' = Append(hist, [op |-> "execute", opcode |-> op, pre |-> Machine])
    /\ UNCHANGED <<pc, tc, ops, dec>>

NextExec == \E op \in ExecOpcodes : ExecuteCall(op)

SpecExec == InitExec /\ [][NextExec]_vars

-----------------------------------------------------------------------------
(* Properties of the three load instructions, under Spec *)

\* A test of the given name has made its runInstructionCycle call.
Ran(name) == pc = "ran" /\ tc.name = name

\* C1: register-to-register load.  When Test8BitLD_R_R has run the byte
\* 01 r1 r2 after writing v1 to r1 and v2 to r2, runInstructionCycle has
\* returned no error and both r1 and r2 read v2.
C1_LoadRegisterFromRegister ==
    Ran("LD_R_R") =>
        /\ panic = "none"
        /\ err = "nil"
        /\ readRegister(Cpu, decodeRegisterType(tc.r1)) = [val |-> tc.v2, panic |-> "none"]
        /\ readRegister(Cpu, decodeRegisterType(tc.r2)) = [val |-> tc.v2, panic |-> "none"]

\* C1 happens: LD B,C has run with 0x24 in B and 0x42 in C before it.
C1_Witness ==
    /\ Ran("LD_R_R")
    /\ tc.r1 = 0 /\ tc.r2 = 1 /\ tc.v1 = 36 /\ tc.v2 = 66
    /\ reg8[gbRegisterB - 1] = 66

\* The value register rt holds when Test8BitLD_HL_R runs its instruction:
\* v1, unless setting HL to addr overwrote it.
ExpectedMem ==
    LET rt == decodeRegisterType(tc.r2) IN
    IF rt = gbRegisterH THEN uint8(Shr(tc.addr, 8))
    ELSE IF rt = gbRegisterL THEN uint8(BitAnd(tc.addr, 255))
    ELSE uint8(tc.v1)

\* C2: register-to-memory store.  When Test8BitLD_HL_R has run the byte
\* 01 110 r after writing v1 to r and setting HL to addr, runInstructionCycle
\* has returned no error and the byte at addr is the value r held.
C2_LoadMemoryFromRegister ==
    Ran("LD_HL_R") =>
        /\ panic = "none"
        /\ err = "nil"
        /\ read(mem, tc.addr) = [val |-> ExpectedMem, err |-> "nil"]

\* C3: memory-to-register load.  When Test8BitLD_R_HL has run the byte
\* 01 r 110 with v2 stored at addr and HL set to addr, runInstructionCycle
\* has returned no error and r reads v2.
C3_LoadRegisterFromMemory ==
    Ran("LD_R_HL") =>
        /\ panic = "none"
        /\ err = "nil"
        /\ readRegister(Cpu, decodeRegisterType(tc.r1)) = [val |-> tc.v2, panic |-> "none"]

-----------------------------------------------------------------------------
(* Properties of the register file, under SpecReg *)

\* The value readRegister returns for t, when it returns.
RegVal(t) == readRegister(Cpu, t).val

\* The last call of hist.
LastCall == hist[Len(hist)]

\* C4: combined-register aliasing.  After any sequence of register writes a
\* pair reads as its high register times 256 plus its low register; after
\* writing h to X and then l to Y the pair XY reads (h << 8) | l; after
\* writing w to XY, X reads w >> 8 and Y reads w & 0xFF.
C4_CombinedAliasing ==
    panic = "none" =>
        \A xy \in CombinedIds :
            /\ readRegister(Cpu, xy).panic = "none"
            /\ RegVal(xy) = 256 * RegVal(HighOf(xy)) + RegVal(LowOf(xy))
            /\ (/\ Len(hist) >= 2
                /\ hist[Len(hist) - 1].t = HighOf(xy)
                /\ hist[Len(hist)].t = LowOf(xy))
               => RegVal(xy) = 256 * (hist[Len(hist) - 1].val % 256)
                               + (hist[Len(hist)].val % 256)
            /\ (Len(hist) >= 1 /\ LastCall.t = xy)
               => /\ RegVal(HighOf(xy)) = LastCall.val \div 256
                  /\ RegVal(LowOf(xy)) = LastCall.val % 256

\* C4 happens: 0xABCD written to BC, then 0x42 to C: B still reads 0xAB and
\* BC reads 0xAB42.
C4_Witness ==
    /\ panic = "none"
    /\ Len(hist) = 2
    /\ hist[1] = [op |-> "pokeRegister", val |-> 43981, t |-> gbRegisterBC]
    /\ hist[2] = [op |-> "pokeRegister", val |-> 66, t |-> gbRegisterC]
    /\ RegVal(gbRegisterB) = 171
    /\ RegVal(gbRegisterBC) = 43842

\* C5: write/read round trip over the whole enumeration.  After
\* pokeRegister(w, id), for any of the fourteen register ids, the call has
\* completed, readRegister(id) returns w for a 16-bit id and w & 0xFF for an
\* 8-bit id, and a write to SP leaves PC as it was.
C5_RegisterRoundTrip ==
    Len(hist) >= 1 =>
        /\ panic = "none"
        /\ readRegister(Cpu, LastCall.t) =
              [val |-> IF is8Bit(LastCall.t) THEN LastCall.val % 256 ELSE LastCall.val,
               panic |-> "none"]
        /\ (Len(hist) = 2 /\ hist[1].t = gbRegisterPC /\ hist[2].t = gbRegisterSP)
           => RegVal(gbRegisterPC) = hist[1].val

\* C18: the low nibble of F is always zero.  After any sequence of
\* pokeRegister calls, readRegister(F) & 0x0F = 0 and
\* readRegister(AF) & 0x000F = 0.
C18_FlagLowNibble ==
    panic = "none" =>
        /\ BitAnd(RegVal(gbRegisterF), 15) = 0
        /\ BitAnd(RegVal(gbRegisterAF), 15) = 0

-----------------------------------------------------------------------------
(* Properties of the address space, under SpecRAM *)

\* C10: write bounds.  A poke at an address up to 0xFFFF returns no error,
\* stores the value there (a read returns it) and changes no other byte; a
\* poke at 0x10000 or above returns OutOfBounds and changes no byte.
C10_PokeBounds ==
    (Len(hist) >= 1 /\ hist[Len(hist)].op = "poke") =>
        LET k == LastCall IN
        IF k.addr <= 65535
        THEN /\ err = "nil"
             /\ read(mem, k.addr) = [val |-> k.val, err |-> "nil"]
             /\ \A a \in (DOMAIN mem \cup DOMAIN k.pre) \ {k.addr} :
                    MemAt(mem, a) = MemAt(k.pre, a)
        ELSE /\ err = "gbErrOutOfBounds"
             /\ mem = k.pre

\* C10 happens: a byte has been written at 0xFFFF of a memory that already
\* held one elsewhere.
C10_Witness ==
    /\ Len(hist) = 1
    /\ hist[1].op = "poke"
    /\ LastCall.addr = 65535
    /\ LastCall.val = 66
    /\ MemAt(LastCall.pre, 0) = 153
    /\ MemAt(mem, 65535) = 66
    /\ MemAt(mem, 0) = 153

\* C14: multi-byte write has no rollback.  pokeN writes vals[1], vals[2], ...
\* in order at addr, addr+1, ...; when the i-th target is the first one at
\* 0x10000 or above it returns OutOfBounds, the bytes before it stay written and
\* no other byte changes; when every target is in range it returns no error and
\* every byte is written.
C14_PokeNNoRollback ==
    (Len(hist) >= 1 /\ hist[Len(hist)].op = "pokeN") =>
        LET k == LastCall
            n == Len(k.vals)
            \* how many targets precede the first one out of range
            written == IF k.addr + n <= gbMaxAddress THEN n
                       ELSE IF k.addr >= gbMaxAddress THEN 0
                       ELSE gbMaxAddress - k.addr
        IN
        /\ err = IF written = n THEN "nil" ELSE "gbErrOutOfBounds"
        /\ \A i \in 1..written : MemAt(mem, k.addr + i - 1) = k.vals[i]
        /\ \A a \in (DOMAIN mem \cup DOMAIN k.pre) :
              (a < k.addr \/ a >= k.addr + written) => MemAt(mem, a) = MemAt(k.pre, a)

\* C14 happens: three bytes were handed to pokeN at 0xFFFE, two were written
\* over a memory that held other bytes there, and the call failed.
C14_Witness ==
    /\ Len(hist) = 1
    /\ hist[1].op = "pokeN"
    /\ hist[1].addr = 65534
    /\ hist[1].vals = <<66, 153, 66>>
    /\ MemAt(hist[1].pre, 65534) = 153
    /\ MemAt(hist[1].pre, 65535) = 66
    /\ err = "gbErrOutOfBounds"
    /\ MemAt(mem, 65534) = 66
    /\ MemAt(mem, 65535) = 153

\* C15: multi-byte read is all-or-nothing.  A read of n bytes at addr returns
\* exactly the n bytes stored at addr..addr+n-1, in order and without error,
\* when every address of that range is below 0x10000 (a range ending at 0xFFFF
\* included); otherwise it returns OutOfBounds and no bytes.  Memory never
\* changes.
C15_ReadAllOrNothing ==
    (Len(hist) >= 1 /\ hist[Len(hist)].op \in {"readN", "read"}) =>
        LET k == LastCall IN
        /\ mem = k.pre
        /\ IF \A i \in 0..(k.n - 1) : k.addr + i < gbMaxAddress
           THEN /\ err = "nil"
                /\ k.vals = [i \in 1..k.n |-> MemAt(k.pre, k.addr + i - 1)]
           ELSE /\ err = "gbErrOutOfBounds"
                /\ k.vals = <<>>

-----------------------------------------------------------------------------
(* Properties of the decoder, under SpecDecode *)

\* The two-bit header and the three-bit fields of a byte, by arithmetic.
HeaderBits(b) == b \div 64
FirstBits(b) == (b \div 8) % 8
SecondBits(b) == b % 8

\* decode has returned an opcode of this kind and cost, and no error.
Decoded(tipe, cycles) ==
    /\ dec.err = "nil"
    /\ dec.n = 0
    /\ Len(dec.opcode) = 1
    /\ dec.opcode[1].tipe = tipe
    /\ dec.opcode[1].cycles = cycles

\* C6: illegal encoding.  decode of the single byte 0x76 (01 110 110) fails
\* with InvalidOpcode and returns no instruction.
C6_IllegalEncoding ==
    (pc = "decoded" /\ ops = <<118>>) =>
        /\ dec.err = "gbErrInvalidOpcode"
        /\ dec.opcode = <<>>

\* C7: classification of header 01.  For a single byte of header 01, decode
\* returns gbOpcodeLDHlR with cost 2 when the first field is 110 and the
\* second a register, gbOpcodeLDRHl with cost 2 when the second field is 110
\* and the first a register, gbOpcodeLDRRp with cost 1 when neither is 110.
C7_Classification ==
    (pc = "decoded" /\ Len(ops) = 1 /\ HeaderBits(ops[1]) = 1) =>
        LET f == FirstBits(ops[1])
            s == SecondBits(ops[1])
        IN  /\ (f = 6 /\ s # 6) => Decoded(gbOpcodeLDHlR, 2)
            /\ (f # 6 /\ s = 6) => Decoded(gbOpcodeLDRHl, 2)
            /\ (f # 6 /\ s # 6) => Decoded(gbOpcodeLDRRp, 1)

\* C8: oversized instruction.  decode of a legal opcode byte of header 01
\* followed by k >= 1 bytes fails with WrongOpcodeSize, returns no
\* instruction and returns the delta -k.
C8_Oversized ==
    (/\ pc = "decoded"
     /\ Len(ops) >= 2
     /\ HeaderBits(ops[1]) = 1
     /\ ops[1] # 118) =>
        /\ dec.err = "gbErrWrongOpcodeSize"
        /\ dec.opcode = <<>>
        /\ dec.n = -(Len(ops) - 1)

\* C8 happens: LD B,C followed by two bytes has been decoded.
C8_Witness ==
    /\ pc = "decoded"
    /\ ops = <<65, 0, 255>>
    /\ dec.n = -2

\* C9: decoder round trip.  When decode classifies a byte as one of the
\* three load kinds, the fields of the instruction are in 0..3, 0..7 and 0..7
\* and (header << 6) | (first << 3) | second is the byte.
C9_RoundTrip ==
    (pc = "decoded" /\ dec.err = "nil") =>
        /\ Len(dec.opcode) = 1
        /\ LET o == dec.opcode[1] IN
           /\ o.tipe \in {gbOpcodeLDRRp, gbOpcodeLDRHl, gbOpcodeLDHlR}
           /\ o.header \in 0..3
           /\ o.first \in 0..7
           /\ o.second \in 0..7
           /\ 64 * o.header + 8 * o.first + o.second = ops[1]

\* C9 happens: 0x4A (01 001 010, LD C,D) has been decoded into its fields.
C9_Witness ==
    /\ pc = "decoded"
    /\ ops = <<74>>
    /\ dec.err = "nil"
    /\ dec.opcode[1].first = 1
    /\ dec.opcode[1].second = 2

\* C16: decode is total with typed outcomes.  For every byte sequence decode
\* returns exactly one of (instruction, 0, no error), (no instruction, 0,
\* InvalidOpcode) and (no instruction, -k, WrongOpcodeSize) with k >= 1 the
\* number of bytes after the first; the empty sequence and every sequence
\* whose first byte has header 00, 10 or 11 give InvalidOpcode.
C16_TypedOutcomes ==
    pc = "decoded" =>
        /\ \/ (Len(dec.opcode) = 1 /\ dec.n = 0 /\ dec.err = "nil")
           \/ (dec.opcode = <<>> /\ dec.n = 0 /\ dec.err = "gbErrInvalidOpcode")
           \/ (/\ dec.opcode = <<>>
               /\ Len(ops) >= 2
               /\ dec.n = -(Len(ops) - 1)
               /\ dec.err = "gbErrWrongOpcodeSize")
        /\ (ops = <<>> \/ HeaderBits(ops[1]) # 1) =>
              (dec.opcode = <<>> /\ dec.n = 0 /\ dec.err = "gbErrInvalidOpcode")

\* C16 happens: a byte of header 11 followed by two bytes has been refused as
\* an invalid opcode, not for its size.
C16_Witness ==
    /\ pc = "decoded"
    /\ ops = <<195, 0, 255>>
    /\ dec = [opcode |-> <<>>, n |-> 0, err |-> "gbErrInvalidOpcode"]

-----------------------------------------------------------------------------
(* Properties of the fetch-execute cycle, under SpecCycle *)

\* The last call was runInstructionCycle.
RanCycle == Len(hist) = 1 /\ hist[1].op = "runInstructionCycle"

\* The byte at PC when the last call was made.
ByteAtPC ==
    MemAt(hist[1].pre.r, readRegister(hist[1].pre.c, gbRegisterPC).val)

\* C11: the cycle returns the instruction's cost.  A successful
\* runInstructionCycle hands its caller the cycles value the decoder gave the
\* instruction: 1 for a register-to-register load, 2 for a load or store
\* through (HL).
C11_CycleCost ==
    (RanCycle /\ panic = "none" /\ err = "nil") =>
        /\ "cycles" \in DOMAIN hist[1].ret
        /\ hist[1].ret.cycles =
              IF FirstBits(ByteAtPC) = 6 \/ SecondBits(ByteAtPC) = 6 THEN 2 ELSE 1

\* C12: PC is never advanced.  After any sequence of load and
\* runInstructionCycle calls, failed ones included, PC reads what it read
\* before the sequence; a load changes no register and no memory byte.
C12_PCNeverAdvanced ==
    /\ RegVal(gbRegisterPC) = OpcodeAddr
    /\ (Len(hist) = 1 /\ hist[1].op = "load") =>
          (Cpu = hist[1].pre.c /\ mem = hist[1].pre.r)

\* C12 happens: a cycle has executed a load that changed a register, and PC
\* still points at the opcode.
C12_Witness ==
    /\ RanCycle
    /\ hist[1].executed
    /\ err = "nil"
    /\ panic = "none"
    /\ Cpu # hist[1].pre.c
    /\ RegVal(gbRegisterPC) = OpcodeAddr

\* C13: failure propagation.  When the byte at PC is not a recognized opcode,
\* runInstructionCycle returns the decoder's InvalidOpcode error, execute is
\* not called, and every register and every memory byte is as before.
C13_FailurePropagation ==
    (RanCycle /\ decode(<<ByteAtPC>>).err = "gbErrInvalidOpcode") =>
        /\ hist[1].ret.err = "gbErrInvalidOpcode"
        /\ ~hist[1].executed
        /\ panic = "none"
        /\ Cpu = hist[1].pre.c
        /\ mem = hist[1].pre.r

\* C13 happens: a cycle has been run on the byte 0xC3 (header 11).
C13_Witness ==
    /\ RanCycle
    /\ ByteAtPC = 195
    /\ hist[1].ret.err = "gbErrInvalidOpcode"
    /\ RegVal(gbRegisterB) = FillVal(gbRegisterB)

\* C17: the decoder never hands the engine an invalid register field.  For
\* every byte at PC runInstructionCycle returns a result or an error; it never
\* reaches readRegister or pokeRegister with gbRegisterUnknown, which panics.
C17_NoInvalidRegisterField ==
    RanCycle => panic = "none"

\* C21: the fetch never asks for more bytes.  For every byte at PC, decode of
\* that one byte returns the delta 0 and not WrongOpcodeSize; a load reads the
\* one byte at PC, calls decode once, and neither it nor a cycle panics with
\* gbErrIncompatibleOpcodeSize.
C21_FetchSingleByte ==
    /\ LET d == decode(<<MemAt(mem, RegVal(gbRegisterPC))>>) IN
       d.n = 0 /\ d.err # "gbErrWrongOpcodeSize"
    /\ panic # "gbErrIncompatibleOpcodeSize"
    /\ (Len(hist) = 1 /\ hist[1].op = "load") =>
          hist[1].steps =
             Steps(<<readRegister(hist[1].pre.c, gbRegisterPC).val>>, 1)

\* C21 happens: a load has fetched the byte 0x41 (LD B,C) at 0x100 with one
\* read and one decode, and returned its instruction.
C21_Witness ==
    /\ Len(hist) = 1
    /\ hist[1].op = "load"
    /\ ByteAtPC = 65
    /\ hist[1].steps.reads = <<OpcodeAddr>>
    /\ hist[1].steps.decodes = 1
    /\ hist[1].ret.err = "nil"
    /\ Len(hist[1].ret.opcode) = 1
    /\ panic = "none"

-----------------------------------------------------------------------------
(* Properties of execute, under SpecExec *)

\* The instruction of the last execute call and the machine it found.
LastOp == hist[Len(hist)].opcode
Before == hist[Len(hist)].pre

\* The last execute call returned no error.
Executed == Len(hist) >= 1 /\ err = "nil" /\ panic = "none"

\* Every 8-bit register but t, and SP and PC, are as the last call found them.
OnlyRegisterChanged(t) ==
    /\ reg16 = Before.c.reg16
    /\ \A u \in gbRegisterA..gbRegisterL :
          u # t => readRegister(Cpu, u) = readRegister(Before.c, u)

\* C19: error values are never mutated.  After any sequence of execute calls
\* the package variable gbErrUnknownOpcode holds the value it held initially.
C19_ErrorValuesFixed ==
    gbErrUnknownOpcode = 0

\* C20: frame of the three loads.  A successful LD R,R' changes only the
\* destination register and no memory byte; a successful LD R,(HL) changes
\* only the destination register and no memory byte; a successful LD (HL),R
\* changes only the memory byte at the address in HL and no register.
C20_LoadFrame ==
    Executed =>
        /\ LastOp.tipe \in {gbOpcodeLDRRp, gbOpcodeLDRHl} =>
              /\ OnlyRegisterChanged(decodeRegisterType(LastOp.first))
              /\ mem = Before.r
        /\ LastOp.tipe = gbOpcodeLDHlR =>
              /\ Cpu = Before.c
              /\ \A a \in (DOMAIN mem \cup DOMAIN Before.r) :
                    a # readRegister(Before.c, gbRegisterHL).val =>
                        MemAt(mem, a) = MemAt(Before.r, a)

\* C20 happens: LD (HL),B has stored B at 0x0204 and the byte after it is the
\* one that was there.
C20_Witness ==
    /\ Executed
    /\ LastOp.tipe = gbOpcodeLDHlR
    /\ LastOp.second = 0
    /\ MemAt(Before.r, 516) = 153
    /\ MemAt(mem, 516) = FillVal(gbRegisterB)
    /\ MemAt(mem, 517) = 90

=============================================================================
